---- MODULE Spec2Model ----
(***************************************************************************)
(* Batch Maestro (src/src/lib.rs): seven pure functions that split a total *)
(* into batch sizes.  A behaviour of the model is one call: the caller     *)
(* picks an operation and its arguments, the operation runs to its end and *)
(* leaves its outcome in `result`.  An outcome is a returned Ok value, a   *)
(* returned Err value, or a panic (an unwrap of None, a division by zero). *)
(* usize arithmetic is modelled on the naturals: every intermediate value  *)
(* the bounded inputs produce is far below 2^64.                           *)
(***************************************************************************)
EXTENDS Integers, Sequences, FiniteSets, TLC

VARIABLES op, args, result

vars == <<op, args, result>>

\* ---------------------------------------------------------------- bounds
MaxTotal == 12
MaxSize == 12
MaxWeight == 3
MaxWeights == 3

\* The totals and sizes the crate's own tests and doc examples use, so that
\* the documented calls are among the calls of the model.
ExampleTotals == {17, 23, 25, 50, 100}
ExampleSizes == {10, 20, 30}

Totals == (0..MaxTotal) \cup ExampleTotals
Sizes == (0..MaxSize) \cup ExampleSizes
WeightSeqs == UNION {[1..n -> 0..MaxWeight] : n \in 0..MaxWeights}

\* ------------------------------------------------------------- outcomes
Absent == -1

NoArgs ==
    [total |-> 0, max_batch_size |-> 0, min_batch_size |-> 0, num_batches |-> 0,
     min_batches |-> 0, max_batches |-> 0, weights |-> <<>>]

NoResult ==
    [kind |-> "none", count |-> Absent, sizes |-> <<>>, remainder |-> Absent,
     configs |-> <<>>, msg |-> ""]

\* Err(String::from(msg))
Err(msg) == [NoResult EXCEPT !.kind = "err", !.msg = msg]

\* a panic: Option::unwrap on None, division by zero, index out of bounds
Panic(msg) == [NoResult EXCEPT !.kind = "panic", !.msg = msg]

\* Ok((num_batches, batch_sizes))
OkCountSizes(n, s) == [NoResult EXCEPT !.kind = "ok", !.count = n, !.sizes = s]

\* Ok(batch_sizes)
OkSizes(s) == [NoResult EXCEPT !.kind = "ok", !.sizes = s]

\* Ok((num_batches, batch_sizes, remainder))
OkCountSizesRemainder(n, s, r) ==
    [NoResult EXCEPT !.kind = "ok", !.count = n, !.sizes = s, !.remainder = r]

\* Ok(configurations)
OkConfigs(c) == [NoResult EXCEPT !.kind = "ok", !.configs = c]

UnwrapNone == "called Option::unwrap() on a None value"

\* vec![x; n]
Repeat(x, n) == [i \in 1..n |-> x]

\* s[lo] + ... + s[hi], halving the range so that long sequences stay shallow
RECURSIVE SumRange(_, _, _)
SumRange(s, lo, hi) ==
    IF lo > hi THEN 0
    ELSE IF lo = hi THEN s[lo]
    ELSE LET mid == (lo + hi) \div 2
         IN  SumRange(s, lo, mid) + SumRange(s, mid + 1, hi)

\* iter().sum()
SumSeq(s) == SumRange(s, 1, Len(s))

\* ------------------------------------------------------------ even_split
\* the scan with a fallback of one batch that holds the whole total
RECURSIVE even_split_scan_single_fallback(_, _)
even_split_scan_single_fallback(total, batch_size) ==
    IF batch_size > 1
    THEN IF total % batch_size = 0
         THEN OkCountSizes(total \div batch_size, Repeat(batch_size, total \div batch_size))
         ELSE even_split_scan_single_fallback(total, batch_size - 1)
    ELSE OkCountSizes(1, <<total>>)

\* the `while batch_size > 1` scan of even_split and its fallback
RECURSIVE even_split_scan(_, _)
even_split_scan(total, batch_size) ==
    IF batch_size > 1
    THEN IF total % batch_size = 0
         THEN OkCountSizes(total \div batch_size, Repeat(batch_size, total \div batch_size))
         ELSE even_split_scan(total, batch_size - 1)
    ELSE OkCountSizes(total, Repeat(1, total))

\* even_split with the scan started one below max_batch_size
even_split_skips_max(total, max_batch_size) ==
    IF total = 0 THEN Err("Total must be a positive number")
    ELSE IF max_batch_size = 0 THEN Err("Max batch size must be a positive number")
    ELSE IF total <= max_batch_size THEN OkCountSizes(1, <<total>>)
    ELSE even_split_scan(total, max_batch_size - 1)

even_split(total, max_batch_size) ==
    IF total = 0 THEN Err("Total must be a positive number")
    ELSE IF max_batch_size = 0 THEN Err("Max batch size must be a positive number")
    ELSE IF total <= max_batch_size THEN OkCountSizes(1, <<total>>)
    ELSE even_split_scan(total, max_batch_size)

\* -------------------------------------------------------- split_weighted
\* the `for (i, &weight) in weights.iter().enumerate()` loop; i counts from 1
\* here, so the last weight is i = Len(weights).  `remaining -= size` cannot
\* go below zero: the sizes before the last sum to less than total.
RECURSIVE split_weighted_loop(_, _, _, _, _, _)
split_weighted_loop(total, weights, weight_sum, i, batches, remaining) ==
    IF i > Len(weights) THEN OkSizes(batches)
    ELSE LET size == IF i = Len(weights)
                     THEN remaining
                     ELSE (total * weights[i]) \div weight_sum
         IN  IF size = 0 THEN Panic(UnwrapNone)
             ELSE split_weighted_loop(total, weights, weight_sum, i + 1,
                                      Append(batches, size), remaining - size)

split_weighted(total, weights) ==
    IF total = 0 THEN Err("Total must be a positive number")
    ELSE IF weights = <<>> THEN Err("Weights vector must not be empty")
    ELSE IF \E i \in 1..Len(weights) : weights[i] = 0
         THEN Err("All weights must be positive numbers")
    ELSE split_weighted_loop(total, weights, SumSeq(weights), 1, <<>>, total)

\* ----------------------------------------------------------- split_range
\* the `for batch_size in (min_batch_size..=max_batch_size).rev()` loop
RECURSIVE split_range_loop(_, _, _, _)
split_range_loop(total, min_batch_size, batch_size, configurations) ==
    IF batch_size < min_batch_size THEN OkConfigs(configurations)
    ELSE LET num_batches == total \div batch_size
             remainder == total % batch_size
         IN  split_range_loop(total, min_batch_size, batch_size - 1,
                 IF num_batches > 0
                 THEN Append(configurations, <<num_batches, batch_size, remainder>>)
                 ELSE configurations)

\* split_range over the half-open range min_batch_size..max_batch_size
split_range_exclusive(total, min_batch_size, max_batch_size) ==
    IF total = 0 THEN Err("Total must be a positive number")
    ELSE IF min_batch_size = 0 THEN Err("Minimum batch size must be a positive number")
    ELSE IF max_batch_size < min_batch_size
         THEN Err("Maximum batch size must be greater than or equal to minimum batch size")
    ELSE split_range_loop(total, min_batch_size, max_batch_size - 1, <<>>)

split_range(total, min_batch_size, max_batch_size) ==
    IF total = 0 THEN Err("Total must be a positive number")
    ELSE IF min_batch_size = 0 THEN Err("Minimum batch size must be a positive number")
    ELSE IF max_batch_size < min_batch_size
         THEN Err("Maximum batch size must be greater than or equal to minimum batch size")
    ELSE split_range_loop(total, min_batch_size, max_batch_size, <<>>)

\* -------------------------------------------------------- optimize_split
\* the scan with `remainder <= min_remainder`: a tie moves to the later count
RECURSIVE optimize_split_scan_ties_late(_, _, _, _, _)
optimize_split_scan_ties_late(total, num_batches, max_batches, best_num_batches, min_remainder) ==
    IF num_batches > max_batches THEN <<best_num_batches, min_remainder>>
    ELSE LET remainder == total % num_batches
             best == IF remainder <= min_remainder THEN num_batches ELSE best_num_batches
             least == IF remainder <= min_remainder THEN remainder ELSE min_remainder
         IN  IF remainder = 0 THEN <<best, least>>
             ELSE optimize_split_scan_ties_late(total, num_batches + 1, max_batches,
                                                best, least)

\* the `for num_batches in min_batches..=max_batches` scan; its value is the
\* pair <<best_num_batches, min_remainder>> the loop ends with
RECURSIVE optimize_split_scan(_, _, _, _, _)
optimize_split_scan(total, num_batches, max_batches, best_num_batches, min_remainder) ==
    IF num_batches > max_batches THEN <<best_num_batches, min_remainder>>
    ELSE LET remainder == total % num_batches
             best == IF remainder < min_remainder THEN num_batches ELSE best_num_batches
             least == IF remainder < min_remainder THEN remainder ELSE min_remainder
         IN  IF remainder = 0 THEN <<best, least>>
             ELSE optimize_split_scan(total, num_batches + 1, max_batches, best, least)

\* lines 257-263: the base size, the vector of base sizes, and one more for
\* each of the first min_remainder batches
optimize_split_build(total, best_num_batches, min_remainder) ==
    LET base_size == total \div best_num_batches
    IN  IF base_size = 0 THEN Panic(UnwrapNone)
        ELSE IF min_remainder > best_num_batches THEN Panic("index out of bounds")
        ELSE OkCountSizes(best_num_batches,
                 [i \in 1..best_num_batches |->
                     IF i <= min_remainder THEN base_size + 1 ELSE base_size])

optimize_split(total, min_batches, max_batches) ==
    IF total = 0 THEN Err("Total must be a positive number")
    ELSE IF min_batches = 0
         THEN Err("Minimum number of batches must be a positive number")
    ELSE IF max_batches < min_batches
         THEN Err("Maximum number of batches must be greater than or equal to minimum number of batches")
    ELSE LET best == optimize_split_scan(total, min_batches, max_batches, min_batches, total)
         IN  optimize_split_build(total, best[1], best[2])

\* -------------------------------------------------- split_with_min_batch
\* the `for i in 0..num_batches` loop: batch i (0-based in the source, i - 1
\* here) gets base_size, plus one while i < remainder; the unwrap panics at
\* the first size that is zero, and nothing is returned then
split_with_min_batch_loop(num_batches, base_size, remainder) ==
    LET size(i) == base_size + (IF i < remainder THEN 1 ELSE 0)
    IN  IF \E i \in 0..(num_batches - 1) : size(i) = 0
        THEN Panic(UnwrapNone)
        ELSE OkCountSizes(num_batches, [i \in 1..num_batches |-> size(i - 1)])

\* split_with_min_batch with max_batch_size as the divisor of the batch count
split_with_min_batch_divides_by_max(total, max_batch_size, min_batch_size) ==
    IF total = 0 THEN Err("Total must be a positive number")
    ELSE IF max_batch_size = 0 THEN Err("Max batch size must be a positive number")
    ELSE IF min_batch_size > max_batch_size
         THEN Err("Min batch size must be less than or equal to max batch size")
    ELSE IF min_batch_size = 0 THEN Panic("attempt to divide by zero")
    ELSE LET num_batches == (total + max_batch_size - 1) \div max_batch_size
         IN  IF num_batches = 0 THEN Panic("attempt to divide by zero")
             ELSE split_with_min_batch_loop(num_batches, total \div num_batches,
                                            total % num_batches)

split_with_min_batch(total, max_batch_size, min_batch_size) ==
    IF total = 0 THEN Err("Total must be a positive number")
    ELSE IF max_batch_size = 0 THEN Err("Max batch size must be a positive number")
    ELSE IF min_batch_size > max_batch_size
         THEN Err("Min batch size must be less than or equal to max batch size")
    ELSE IF min_batch_size = 0 THEN Panic("attempt to divide by zero")
    ELSE LET num_batches == (total + min_batch_size - 1) \div min_batch_size
         IN  IF num_batches = 0 THEN Panic("attempt to divide by zero")
             ELSE split_with_min_batch_loop(num_batches, total \div num_batches,
                                            total % num_batches)

\* -------------------------------------------------------- split_by_count
\* the `for i in 0..num_batches` loop: batch i (0-based in the source, i - 1
\* here) gets base_size, plus one while i < remainder; `?` returns the Err at
\* the first size that is zero, and the batches pushed so far are dropped
split_by_count_loop(num_batches, base_size, remainder) ==
    LET size(i) == base_size + (IF i < remainder THEN 1 ELSE 0)
    IN  IF \E i \in 0..(num_batches - 1) : size(i) = 0
        THEN Err("Failed to create NonZeroUsize")
        ELSE OkSizes([i \in 1..num_batches |-> size(i - 1)])

\* split_by_count with the base size rounded up instead of down
split_by_count_rounds_up(total, num_batches) ==
    IF total = 0 THEN Err("Total must be a positive number")
    ELSE IF num_batches = 0 THEN Err("Number of batches must be a positive number")
    ELSE split_by_count_loop(num_batches, (total + num_batches - 1) \div num_batches,
                             total % num_batches)

split_by_count(total, num_batches) ==
    IF total = 0 THEN Err("Total must be a positive number")
    ELSE IF num_batches = 0 THEN Err("Number of batches must be a positive number")
    ELSE split_by_count_loop(num_batches, total \div num_batches, total % num_batches)

\* -------------------------------------------------- split_with_remainder
\* split_with_remainder that reports the remainder also beside the single
\* batch that already holds the whole total
split_with_remainder_counts_twice(total, max_batch_size) ==
    IF total = 0 THEN Err("Total must be a positive number")
    ELSE IF max_batch_size = 0 THEN Err("Max batch size must be a positive number")
    ELSE LET num_batches == total \div max_batch_size
             remainder == total % max_batch_size
         IN  IF num_batches = 0
             THEN OkCountSizesRemainder(1, <<total>>, remainder)
             ELSE OkCountSizesRemainder(num_batches, Repeat(max_batch_size, num_batches),
                                        remainder)

split_with_remainder(total, max_batch_size) ==
    IF total = 0 THEN Err("Total must be a positive number")
    ELSE IF max_batch_size = 0 THEN Err("Max batch size must be a positive number")
    ELSE LET num_batches == total \div max_batch_size
             remainder == total % max_batch_size
         IN  IF num_batches = 0
             THEN OkCountSizesRemainder(1, <<total>>, 0)
             ELSE OkCountSizesRemainder(num_batches, Repeat(max_batch_size, num_batches),
                                        remainder)

\* -------------------------------------------------------------- actions
Init ==
    /\ op = "none"
    /\ args = NoArgs
    /\ result = NoResult

CallEvenSplit ==
    /\ op = "none"
    /\ \E total \in Totals, max_batch_size \in Sizes :
        /\ op' = "even_split"
        /\ args' = [NoArgs EXCEPT !.total = total, !.max_batch_size = max_batch_size]
        /\ result' = even_split(total, max_batch_size)

CallSplitWeighted ==
    /\ op = "none"
    /\ \E total \in Totals, weights \in WeightSeqs :
        /\ op' = "split_weighted"
        /\ args' = [NoArgs EXCEPT !.total = total, !.weights = weights]
        /\ result' = split_weighted(total, weights)

CallSplitRange ==
    /\ op = "none"
    /\ \E total \in Totals, min_batch_size \in Sizes, max_batch_size \in Sizes :
        /\ op' = "split_range"
        /\ args' = [NoArgs EXCEPT !.total = total, !.min_batch_size = min_batch_size,
                                  !.max_batch_size = max_batch_size]
        /\ result' = split_range(total, min_batch_size, max_batch_size)

CallOptimizeSplit ==
    /\ op = "none"
    /\ \E total \in Totals, min_batches \in Sizes, max_batches \in Sizes :
        /\ op' = "optimize_split"
        /\ args' = [NoArgs EXCEPT !.total = total, !.min_batches = min_batches,
                                  !.max_batches = max_batches]
        /\ result' = optimize_split(total, min_batches, max_batches)

CallSplitWithMinBatch ==
    /\ op = "none"
    /\ \E total \in Totals, max_batch_size \in Sizes, min_batch_size \in Sizes :
        /\ op' = "split_with_min_batch"
        /\ args' = [NoArgs EXCEPT !.total = total, !.max_batch_size = max_batch_size,
                                  !.min_batch_size = min_batch_size]
        /\ result' = split_with_min_batch(total, max_batch_size, min_batch_size)

CallSplitByCount ==
    /\ op = "none"
    /\ \E total \in Totals, num_batches \in Sizes :
        /\ op' = "split_by_count"
        /\ args' = [NoArgs EXCEPT !.total = total, !.num_batches = num_batches]
        /\ result' = split_by_count(total, num_batches)

CallSplitWithRemainder ==
    /\ op = "none"
    /\ \E total \in Totals, max_batch_size \in Sizes :
        /\ op' = "split_with_remainder"
        /\ args' = [NoArgs EXCEPT !.total = total, !.max_batch_size = max_batch_size]
        /\ result' = split_with_remainder(total, max_batch_size)

Next ==
    \/ CallEvenSplit
    \/ CallSplitWeighted
    \/ CallSplitRange
    \/ CallOptimizeSplit
    \/ CallSplitWithMinBatch
    \/ CallSplitByCount
    \/ CallSplitWithRemainder

Spec == Init /\ [][Next]_vars

\* =============================================================== claims
\* helpers of the claims' statements (not models of code)
AllSizesAtLeast(n) == \A i \in 1..Len(result.sizes) : result.sizes[i] >= n

\* the first (total mod k) of k batches hold floor(total / k) + 1, the rest floor(total / k)
FrontLoaded(total, k) ==
    [i \in 1..k |-> IF i <= total % k THEN (total \div k) + 1 ELSE total \div k]

ReturnsCount == {"even_split", "optimize_split", "split_with_min_batch", "split_with_remainder"}

ReturnsSizes == ReturnsCount \cup {"split_weighted", "split_by_count"}

\* C1: conservation.  Whenever one of the six size-returning operations
\* returns Ok, the sizes (plus the separately reported remainder of
\* split_with_remainder) sum to total exactly, and a returned batch count
\* equals the length of the size sequence.
C1_Conservation ==
    (op \in ReturnsSizes /\ result.kind = "ok") =>
        /\ SumSeq(result.sizes)
             + (IF op = "split_with_remainder" THEN result.remainder ELSE 0) = args.total
        /\ op \in ReturnsCount => result.count = Len(result.sizes)

\* a split_with_remainder call that returned several full batches and a
\* non-zero remainder beside them
C1_Witness ==
    /\ op = "split_with_remainder"
    /\ result.kind = "ok"
    /\ result.count >= 2
    /\ result.remainder > 0

\* some size, count or weight argument the called operation takes is zero
HasZeroParameter ==
    \/ args.total = 0
    \/ op \in {"even_split", "split_with_remainder"} /\ args.max_batch_size = 0
    \/ op = "split_weighted" /\ \E i \in 1..Len(args.weights) : args.weights[i] = 0
    \/ op \in {"split_range", "split_with_min_batch"}
         /\ (args.min_batch_size = 0 \/ args.max_batch_size = 0)
    \/ op = "optimize_split" /\ (args.min_batches = 0 \/ args.max_batches = 0)
    \/ op = "split_by_count" /\ args.num_batches = 0

\* C2: every operation answers total = 0 and any zero-valued size, count
\* or weight argument with an Err value, never with a panic.
C2_ZeroRejected ==
    (op # "none" /\ HasZeroParameter) => result.kind = "err"

\* C3: for total > 0 and a non-empty sequence of positive weights,
\* split_weighted returns Ok with one size per weight, each size >= 1.
C3_WeightedSucceeds ==
    (/\ op = "split_weighted"
     /\ args.total > 0
     /\ args.weights # <<>>
     /\ \A i \in 1..Len(args.weights) : args.weights[i] > 0)
    => /\ result.kind = "ok"
       /\ Len(result.sizes) = Len(args.weights)
       /\ AllSizesAtLeast(1)

\* C4: for total > 0 and 1 <= min_batches <= max_batches, optimize_split
\* returns Ok with a batch count in [min_batches, max_batches] and every
\* size >= 1, also when min_batches > total.
C4_OptimizeSucceeds ==
    (/\ op = "optimize_split"
     /\ args.total > 0
     /\ 1 <= args.min_batches
     /\ args.min_batches <= args.max_batches)
    => /\ result.kind = "ok"
       /\ result.count \in args.min_batches..args.max_batches
       /\ AllSizesAtLeast(1)

\* the largest divisor of total that is <= max_batch_size
LargestDivisorUpTo(total, max_batch_size) ==
    CHOOSE d \in 1..max_batch_size :
        /\ total % d = 0
        /\ \A e \in 1..max_batch_size : total % e = 0 => e <= d

ValidMinBatchCall ==
    /\ op = "split_with_min_batch"
    /\ args.total > 0
    /\ 1 <= args.min_batch_size
    /\ args.min_batch_size <= args.max_batch_size

\* C6: for total > 0 and 1 <= min_batch_size <= max_batch_size,
\* split_with_min_batch returns either Ok with every batch >= min_batch_size
\* or an Err; never an Ok that holds a batch smaller than min_batch_size.
C6_MinBatchRespected ==
    ValidMinBatchCall =>
        \/ result.kind = "err"
        \/ result.kind = "ok" /\ AllSizesAtLeast(args.min_batch_size)

\* the batch counts k whose as-even-as-possible split of total keeps every
\* size within [min_batch_size, max_batch_size]
FeasibleCounts(total, min_batch_size, max_batch_size) ==
    {k \in 1..total :
        /\ total \div k >= min_batch_size
        /\ (total \div k) + (IF total % k > 0 THEN 1 ELSE 0) <= max_batch_size}

Least(S) == CHOOSE k \in S : \A j \in S : k <= j

\* C7: split_with_min_batch returns the fewest batches whose as-even-as-
\* possible split keeps every size within [min_batch_size, max_batch_size]:
\* (100, 30, 20) gives 4 batches of 25 and (50, 20, 10) gives [17, 17, 16].
C7_FewestBatchesInRange ==
    ValidMinBatchCall =>
        LET feasible == FeasibleCounts(args.total, args.min_batch_size, args.max_batch_size)
        IN  /\ feasible # {} =>
                /\ result.kind = "ok"
                /\ result.count = Least(feasible)
                /\ result.sizes = FrontLoaded(args.total, Least(feasible))
            /\ (args.total = 100 /\ args.max_batch_size = 30 /\ args.min_batch_size = 20)
               => result.count = 4 /\ result.sizes = <<25, 25, 25, 25>>
            /\ (args.total = 50 /\ args.max_batch_size = 20 /\ args.min_batch_size = 10)
               => result.count = 3 /\ result.sizes = <<17, 17, 16>>

\* C8: for total > 0 and num_batches > 0, split_by_count returns an Err (no
\* panic, no zero-sized batch) exactly when num_batches > total; otherwise
\* num_batches batches, the first (total mod num_batches) of size
\* floor(total / num_batches) + 1 and the rest of size floor(total / num_batches).
C8_SplitByCount ==
    (op = "split_by_count" /\ args.total > 0 /\ args.num_batches > 0) =>
        /\ result.kind \in {"ok", "err"}
        /\ result.kind = "err" <=> args.num_batches > args.total
        /\ result.kind = "ok" =>
            /\ result.sizes = FrontLoaded(args.total, args.num_batches)
            /\ AllSizesAtLeast(1)

\* a split_by_count call asked for more batches than there are items
C8_Witness ==
    /\ op = "split_by_count"
    /\ args.total > 0
    /\ args.num_batches > args.total
    /\ result.kind = "err"

\* C9: for total > 0, 1 <= min_batches <= max_batches and min_batches <= total,
\* the count k optimize_split returns minimises total mod k over
\* [min_batches, max_batches] and is the smallest such k; the sizes are k
\* batches, the first (total mod k) of size floor(total / k) + 1, the rest
\* floor(total / k).
C9_OptimizeLeastRemainder ==
    (/\ op = "optimize_split"
     /\ args.total > 0
     /\ 1 <= args.min_batches
     /\ args.min_batches <= args.max_batches
     /\ args.min_batches <= args.total)
    => /\ result.kind = "ok"
       /\ result.count \in args.min_batches..args.max_batches
       /\ \A j \in args.min_batches..args.max_batches :
            /\ args.total % result.count <= args.total % j
            /\ j < result.count => args.total % j > args.total % result.count
       /\ result.sizes = FrontLoaded(args.total, result.count)

\* an optimize_split call where no count divides total and the best count
\* lies strictly inside the range
C9_Witness ==
    /\ op = "optimize_split"
    /\ result.kind = "ok"
    /\ args.min_batches < result.count
    /\ result.count < args.max_batches
    /\ args.total % result.count > 0

IsPrime(n) == n > 1 /\ \A d \in 2..(n - 1) : n % d # 0

PrimeAboveMaxCall ==
    /\ op = "even_split"
    /\ args.max_batch_size > 0
    /\ IsPrime(args.total)
    /\ args.total > args.max_batch_size

CeilDiv(total, size) == CHOOSE k \in 0..total : k * size >= total /\ (k - 1) * size < total

====
